---- MODULE Spec2Model ----
(***************************************************************************)
(* IPO sheet synchroniser: main.py (add_new_ipo_rows,                      *)
(* update_incomplete_ipo_details, run_full_refresh,                        *)
(* fetch_ipo_details_parallel), naver_scraper.py (get_ipo_details, the     *)
(* listing enumerators) and google_sheets_client.py (insert_rows,          *)
(* update_cells, update_worksheet).                                        *)
(*                                                                         *)
(* The Korean column names of the source are written in ASCII:             *)
(*   "code" = jongmok-kodeu (identifier), "name" = jongmok-myeong,         *)
(*   "sub_date" = cheongyag-il, "listing_date" = sangjang-il,              *)
(*   "ratio" = cheongyag-gyeongjaenglyul, "sales_y" = maechul-aek_<year>,  *)
(*   TBD = 'mijeong' (listing date not fixed yet).                         *)
(* Sheet cells are text, as the store contract has it.                     *)
(***************************************************************************)
EXTENDS Integers, Sequences, FiniteSets, TLC

VARIABLES
    full_refresh,    \* args.full_refresh
    pc,              \* position of main(): "main", "update", "upd_fetch", "ref_fetch", "done"
    run,             \* number of the current run of main()
    header,          \* row 1 of the worksheet
    sheet,           \* rows 2.. of the worksheet, each a sequence of cells
    upcoming_codes,  \* add_new_ipo_rows: result of get_upcoming_ipo_stock_codes()
    existing_codes,  \* add_new_ipo_rows: identifiers read from the sheet
    new_codes,       \* add_new_ipo_rows: identifiers to insert
    all_data,        \* update_incomplete_ipo_details: records read from the sheet
    rows_to_update,  \* update_incomplete_ipo_details: <<row position, identifier>>
    future_to_code,  \* fetch_ipo_details_parallel: identifier of each submitted future
    pending,         \* futures not yet yielded by as_completed
    all_details,     \* fetch_ipo_details_parallel: accepted details, in completion order
    cell_updates,    \* the gspread.Cell list handed to update_cells
    remote,          \* what the detail page of each identifier returns during this run
    refresh_result,  \* outcome of run_full_refresh
    hist             \* history of the runs (previous run's result, adapter failures)

vars == <<full_refresh, pc, run, header, sheet, upcoming_codes, existing_codes, new_codes, all_data,
          rows_to_update, future_to_code, pending, all_details, cell_updates, remote,
          refresh_result, hist>>

-----------------------------------------------------------------------------
(* Bounds *)
MaxInitRows == 1
MaxUpcoming == 2
MaxRuns == 2
MaxRecent == 2
MaxDiffLen == 3

-----------------------------------------------------------------------------
(* Values *)
NA == "N/A"
TBD == "TBD"
None == "<None>"
UNSET == "<unset>"

\* identifiers the 'upcoming' view and the 'recent' view of the site can show
UpcomingCodes == {"A123", "B456"}
RecentCodes == {"B456", "C789"}
Codes == UpcomingCodes \cup RecentCodes

FINAL_HEADER == <<"code", "name", "sub_date", "listing_date", "ratio">>

\* config.MAX_WORKERS: size of the thread pool
MAX_WORKERS == 2

Range(s) == {s[i] : i \in 1..Len(s)}

\* list.index: position of the first occurrence
IndexOf(s, x) == CHOOSE i \in 1..Len(s) : s[i] = x /\ \A j \in 1..(i - 1) : s[j] # x

\* dict.get(k)
Get(d, k) == IF k \in DOMAIN d THEN d[k] ELSE None

\* truth value of a Python str-or-None
Truthy(v) == v # None /\ v # ""

-----------------------------------------------------------------------------
(* naver_scraper.py *)

ABSENT == "<absent>"

NameV == "Acme"
RatioV == "1200:1"
SalesV == "1,234"

SubV(c) == CASE c = "A123" -> "2024-03-01~2024-03-05"
             [] c = "B456" -> "2024-04-01~2024-04-02"
             [] OTHER -> "2024-02-10~2024-02-11"

ListV(c) == CASE c = "A123" -> "2024-03-12"
              [] c = "B456" -> "2024-04-09"
              [] OTHER -> "2024-01-15"

EmptyMap == [k \in {} |-> ""]

\* no request for the page has been made in this run
UNFETCHED == EmptyMap

Opt(k, v) == IF v = ABSENT THEN EmptyMap ELSE (k :> v)

\* the mapping get_ipo_details returns once the page has been parsed
Parsed(c, n, s, l, r) ==
    ("code" :> c) @@ Opt("name", n) @@ ("listing_date" :> l) @@ Opt("sub_date", s)
        @@ Opt("ratio", r) @@ ("sales_y" :> SalesV)

\* what the page of c can show: no schedule yet; subscription over and listing
\* date open; listing fixed and an empty result; everything
Schedules(c) ==
    { [sub |-> ABSENT, listing |-> None, ratio |-> NA],
      [sub |-> SubV(c), listing |-> TBD, ratio |-> RatioV],
      [sub |-> SubV(c), listing |-> ListV(c), ratio |-> ""],
      [sub |-> SubV(c), listing |-> ListV(c), ratio |-> RatioV] }

\* every mapping get_ipo_details(code) can return: the identifier alone when the
\* request or the parse fails (both except clauses return details); the parsed
\* fields without a name when no title tag is found; the parsed fields with a
\* name. No exception leaves the function.
get_ipo_details(c) ==
    {("code" :> c)} \cup
    {Parsed(c, ABSENT, SubV(c), ListV(c), RatioV)} \cup
    {Parsed(c, NameV, p.sub, p.listing, p.ratio) : p \in Schedules(c)}

\* insertion order of the keys of the mapping
DetailKeyOrder == <<"code", "name", "listing_date", "sub_date", "ratio", "sales_y">>

\* get_upcoming_ipo_stock_codes: list(set(codes)), duplicate-free, any order
RECURSIVE SeqsNoDup(_, _)
SeqsNoDup(S, n) ==
    IF n = 0 THEN {<<>>}
    ELSE {<<>>} \cup UNION {{<<x>> \o t : t \in SeqsNoDup(S \ {x}, n - 1)} : x \in S}

get_upcoming_ipo_stock_codes == SeqsNoDup(UpcomingCodes, MaxUpcoming)

get_recent_ipo_stock_codes == SeqsNoDup(RecentCodes, MaxRecent)

-----------------------------------------------------------------------------
(* google_sheets_client.py / gspread worksheet *)

\* worksheet.get_all_records(): one mapping per data row, keyed by the header row
get_all_records(hdr, sh) ==
    [i \in 1..Len(sh) |-> [f \in Range(hdr) |-> sh[i][IndexOf(hdr, f)]]]

\* insert_rows appending below the last row
insert_rows_AtEnd(sh, data, start_row) == sh \o data

\* GoogleSheetsClient.insert_rows: the rows go in at start_row, the rest moves down
insert_rows(sh, data, start_row) ==
    SubSeq(sh, 1, start_row - 2) \o data \o SubSeq(sh, start_row - 1, Len(sh))

\* GoogleSheetsClient.update_cells: each Cell(row, col, value) overwrites one cell
RECURSIVE update_cells(_, _)
update_cells(sh, cells) ==
    IF cells = <<>> THEN sh
    ELSE LET c == Head(cells)
         IN update_cells([sh EXCEPT ![c.row - 1][c.col] = c.value], Tail(cells))

-----------------------------------------------------------------------------
(* main.py: add_new_ipo_rows *)

\* str() of an identifier held as text
Str(c) == c

\* CodesOf reading the name column
CodesOf_NameColumn(records) == {Str(records[i]["name"]) : i \in 1..Len(records)}

CodesOf(records) == {Str(records[i]["code"]) : i \in 1..Len(records)}

\* NewCodes without the membership test
NewCodes_Unfiltered(upcoming, existing) == upcoming

\* line 90: new_codes = [code for code in upcoming_codes if str(code) not in existing_codes]
NewCodes(upcoming, existing) ==
    LET IsNew(c) == Str(c) \notin existing
    IN SelectSeq(upcoming, IsNew)

\* line 94-95: one row per new identifier, projected on FINAL_HEADER
PlaceholderRow(c) ==
    [j \in 1..Len(FINAL_HEADER) |-> IF FINAL_HEADER[j] # "code" THEN NA ELSE c]

new_ipo_list(codes) == [i \in 1..Len(codes) |-> PlaceholderRow(codes[i])]

-----------------------------------------------------------------------------
(* main.py: update_incomplete_ipo_details *)

\* is_incomplete without 'mijeong' in the listing-date test
is_incomplete_IgnoresTBD(row) ==
    \/ ~Truthy(Get(row, "sub_date")) \/ Get(row, "sub_date") = NA
    \/ ~Truthy(Get(row, "listing_date")) \/ Get(row, "listing_date") = NA
    \/ ~Truthy(Get(row, "ratio")) \/ Get(row, "ratio") = NA

\* lines 116-120
is_incomplete(row) ==
    \/ ~Truthy(Get(row, "sub_date")) \/ Get(row, "sub_date") = NA
    \/ ~Truthy(Get(row, "listing_date")) \/ Get(row, "listing_date") \in {NA, TBD}
    \/ ~Truthy(Get(row, "ratio")) \/ Get(row, "ratio") = NA

\* RowsToUpdate with the header row not counted
RowsToUpdate_OffByOne(records) ==
    LET idx == SelectSeq([i \in 1..Len(records) |-> i],
                         LAMBDA i : is_incomplete(records[i]))
    IN [k \in 1..Len(idx) |-> <<(idx[k] - 1) + 1, records[idx[k]]["code"]>>]

\* lines 114-122: (i + 2, identifier) of every incomplete record, in row order
RowsToUpdate(records) ==
    LET idx == SelectSeq([i \in 1..Len(records) |-> i],
                         LAMBDA i : is_incomplete(records[i]))
    IN [k \in 1..Len(idx) |-> <<(idx[k] - 1) + 2, records[idx[k]]["code"]>>]

\* DetailsMap keeping the first completed detail only
DetailsMap_FirstOnly(list) ==
    IF list = <<>> THEN EmptyMap ELSE (Str(list[1]["code"]) :> list[1])

\* line 139: details_map = {str(d['code']): d for d in details_list}; a later entry wins
RECURSIVE DetailsMap(_)
DetailsMap(list) ==
    IF list = <<>> THEN EmptyMap
    ELSE LET d == list[Len(list)]
         IN (Str(d["code"]) :> d) @@ DetailsMap(SubSeq(list, 1, Len(list) - 1))

\* RowCells without the test against 'N/A'
RowCells_KeepsSentinel(row_idx, details, hdr) ==
    LET Keep(k) == k \in DOMAIN details /\ Truthy(details[k]) /\ k \in Range(hdr)
        keys == SelectSeq(DetailKeyOrder, Keep)
    IN [i \in 1..Len(keys) |->
            [row |-> row_idx, col |-> IndexOf(hdr, keys[i]), value |-> details[keys[i]]]]

\* lines 144-147: the cells of one row
RowCells(row_idx, details, hdr) ==
    LET Keep(k) == /\ k \in DOMAIN details
                   /\ Truthy(details[k]) /\ details[k] # NA /\ k \in Range(hdr)
        keys == SelectSeq(DetailKeyOrder, Keep)
    IN [i \in 1..Len(keys) |->
            [row |-> row_idx, col |-> IndexOf(hdr, keys[i]), value |-> details[keys[i]]]]

\* lines 141-147
RECURSIVE CellUpdates(_, _, _)
CellUpdates(rows, dmap, hdr) ==
    IF rows = <<>> THEN <<>>
    ELSE LET r == Head(rows)
         IN (IF Str(r[2]) \in DOMAIN dmap THEN RowCells(r[1], dmap[Str(r[2])], hdr) ELSE <<>>)
                \o CellUpdates(Tail(rows), dmap, hdr)

-----------------------------------------------------------------------------
(* main.py: fetch_ipo_details_parallel *)

\* Accepted without the test for a name
Accepted_WithoutName(details) == DOMAIN details # {}

\* line 26: if details and details.get('name')
Accepted(details) == Truthy(Get(details, "name"))

\* line 22: one future per entry of codes
Submit(codes) ==
    /\ future_to_code' = codes
    /\ pending' = 1..Len(codes)
    /\ all_details' = <<>>

\* line 21: the pool takes the submitted calls in order, MAX_WORKERS at a time
Running == {i \in pending : Cardinality({j \in pending : j < i}) < MAX_WORKERS}

\* lines 23-30: as_completed yields one more future; the page of an identifier
\* shows one content during a run
FutureCompleted(i, d) ==
    /\ pc \in {"upd_fetch", "ref_fetch"}
    /\ i \in Running
    /\ LET c == future_to_code[i]
       IN /\ d \in get_ipo_details(c)
          /\ remote[c] \in {UNFETCHED, d}
          /\ remote' = [remote EXCEPT ![c] = d]
    /\ all_details' = IF Accepted(d) THEN Append(all_details, d) ELSE all_details
    /\ pending' = pending \ {i}
    /\ UNCHANGED <<full_refresh, pc, run, header, sheet, upcoming_codes, existing_codes, new_codes,
                   all_data, rows_to_update, future_to_code, cell_updates,
                   refresh_result, hist>>

-----------------------------------------------------------------------------
(* main.py: main, incremental mode *)

\* what a run remembers of the run before it and of its own reads and writes
NewHist(sh, prev_up, prev_ok, prev_rows) ==
    [prev_sheet |-> sh, prev_upcoming |-> prev_up, prev_reads_ok |-> prev_ok,
     prev_rows |-> prev_rows, reads_ok |-> TRUE, before_add |-> sh,
     add_read_ok |-> TRUE, sel_read_ok |-> TRUE, before_write |-> <<>>]

\* lines 74-98, whole call; read_ok = FALSE when get_all_records raises GSpreadException
add_new_ipo_rows(F, read_ok) ==
    /\ pc = "main"
    /\ ~full_refresh
    /\ F \in get_upcoming_ipo_stock_codes
    /\ run > 1 => F = hist.prev_upcoming
    /\ upcoming_codes' = F
    /\ IF F = <<>>
       THEN UNCHANGED <<existing_codes, new_codes, sheet, hist>>
       ELSE LET existing == IF read_ok THEN CodesOf(get_all_records(header, sheet)) ELSE {}
                new == NewCodes(F, existing)
            IN /\ existing_codes' = existing
               /\ new_codes' = new
               /\ sheet' = IF new # <<>> THEN insert_rows(sheet, new_ipo_list(new), 2)
                                        ELSE sheet
               /\ hist' = [hist EXCEPT !.reads_ok = @ /\ read_ok,
                                       !.before_add = sheet,
                                       !.add_read_ok = read_ok]
    /\ pc' = "update"
    /\ UNCHANGED <<full_refresh, run, header, all_data, rows_to_update, future_to_code, pending,
                   all_details, cell_updates, remote, refresh_result>>

\* lines 100-130: read the sheet, pick the incomplete rows, submit their fetches
update_select(read_ok) ==
    /\ pc = "update"
    /\ LET data == IF read_ok THEN get_all_records(header, sheet) ELSE <<>>
           rows == RowsToUpdate(data)
       IN /\ all_data' = data
          /\ rows_to_update' = rows
          /\ IF data = <<>> \/ rows = <<>>
             THEN /\ pc' = "done"
                  /\ UNCHANGED <<future_to_code, pending, all_details>>
             ELSE /\ pc' = "upd_fetch"
                  /\ Submit([k \in 1..Len(rows) |-> rows[k][2]])
    /\ hist' = [hist EXCEPT !.reads_ok = @ /\ read_ok, !.sel_read_ok = read_ok]
    /\ UNCHANGED <<full_refresh, run, header, sheet, upcoming_codes, existing_codes, new_codes,
                   cell_updates, remote, refresh_result>>

\* lines 132-154: every fetch has settled; build the cells and write them
update_write ==
    /\ pc = "upd_fetch"
    /\ pending = {}
    /\ LET cells == IF all_details = <<>> THEN <<>>
                    ELSE CellUpdates(rows_to_update, DetailsMap(all_details), header)
       IN /\ cell_updates' = cells
          /\ sheet' = update_cells(sheet, cells)
    /\ pc' = "done"
    /\ hist' = [hist EXCEPT !.before_write = sheet]
    /\ UNCHANGED <<full_refresh, run, header, upcoming_codes, existing_codes, new_codes, all_data,
                   rows_to_update, future_to_code, pending, all_details, remote,
                   refresh_result>>

\* main() is started again while the site still shows what it showed: the same
\* upcoming list and the same pages
rerun ==
    /\ pc = "done"
    /\ run < MaxRuns
    /\ run' = run + 1
    /\ pc' = "main"
    /\ hist' = NewHist(sheet, upcoming_codes, hist.reads_ok, rows_to_update)
    /\ upcoming_codes' = <<>>
    /\ existing_codes' = {}
    /\ new_codes' = <<>>
    /\ all_data' = <<>>
    /\ rows_to_update' = <<>>
    /\ future_to_code' = <<>>
    /\ pending' = {}
    /\ all_details' = <<>>
    /\ cell_updates' = <<>>
    /\ UNCHANGED <<full_refresh, header, sheet, remote, refresh_result>>

-----------------------------------------------------------------------------
(* main.py: run_full_refresh *)

NaT == -1

\* pd.to_datetime(errors='coerce'): a date, or NaT for what is no date
to_datetime(v) ==
    CASE v = "2024-01-15" -> 20240115
      [] v = "2024-02-10" -> 20240210
      [] v = "2024-03-01" -> 20240301
      [] v = "2024-03-12" -> 20240312
      [] v = "2024-04-01" -> 20240401
      [] v = "2024-04-09" -> 20240409
      [] OTHER -> NaT

\* .str.split('~').str[0]
SplitFirst(v) ==
    CASE v = "2024-03-01~2024-03-05" -> "2024-03-01"
      [] v = "2024-04-01~2024-04-02" -> "2024-04-01"
      [] v = "2024-02-10~2024-02-11" -> "2024-02-10"
      [] OTHER -> v

\* .fillna('')
FillEmpty(v) == IF v = None THEN "" ELSE v

\* line 58 and line 60, for one record
listing_dt(d) == to_datetime(Get(d, "listing_date"))
sub_dt(d) == to_datetime(SplitFirst(FillEmpty(Get(d, "sub_date"))))

RemoveAt(s, m) == SubSeq(s, 1, m - 1) \o SubSeq(s, m + 1, Len(s))

RECURSIVE Descending(_, _)
Descending(idx, key) ==
    IF idx = <<>> THEN <<>>
    ELSE LET m == CHOOSE a \in 1..Len(idx) :
                    /\ \A b \in 1..Len(idx) : key[idx[b]] <= key[idx[a]]
                    /\ \A b \in 1..(a - 1) : key[idx[b]] < key[idx[a]]
         IN <<idx[m]>> \o Descending(RemoveAt(idx, m), key)

\* DataFrame.sort_values(by=..., ascending=False): NaT rows last
sort_values(idx, key) ==
    LET IsDate(i) == key[i] # NaT
        IsNaT(i) == key[i] = NaT
    IN Descending(SelectSeq(idx, IsDate), key) \o SelectSeq(idx, IsNaT)

\* lines 57-67: the row order of final_df, as indices into all_details
FinalOrder(details) ==
    LET all == [i \in 1..Len(details) |-> i]
        ldt == [i \in 1..Len(details) |-> listing_dt(details[i])]
        sdt == [i \in 1..Len(details) |-> sub_dt(details[i])]
        NoListing(i) == ldt[i] = NaT
        HasListing(i) == ldt[i] # NaT
        df_no_listing == sort_values(SelectSeq(all, NoListing), sdt)
        df_has_listing == sort_values(SelectSeq(all, HasListing), ldt)
    IN df_no_listing \o df_has_listing

\* columns of pd.DataFrame(all_details)
Columns(details) == UNION {DOMAIN details[i] : i \in 1..Len(details)}

\* run_full_refresh line 67: reindex(columns=FINAL_HEADER).fillna('N/A')
RefreshRow(d) ==
    [j \in 1..Len(FINAL_HEADER) |->
        IF Get(d, FINAL_HEADER[j]) = None THEN NA ELSE d[FINAL_HEADER[j]]]

CodeRank(c) == CASE c = "A123" -> 1 [] c = "B456" -> 2 [] OTHER -> 3

\* sorted(list(set(...)))
RECURSIVE Sorted(_)
Sorted(S) ==
    IF S = {} THEN <<>>
    ELSE LET m == CHOOSE c \in S : \A o \in S : CodeRank(c) <= CodeRank(o)
         IN <<m>> \o Sorted(S \ {m})

\* lines 35-49: collect the identifiers and submit their fetches
refresh_start(recent_codes, upcoming) ==
    /\ pc = "main"
    /\ full_refresh
    /\ recent_codes \in get_recent_ipo_stock_codes
    /\ upcoming \in get_upcoming_ipo_stock_codes
    /\ upcoming_codes' = upcoming
    /\ LET all_codes == Sorted(Range(recent_codes) \cup Range(upcoming))
       IN IF all_codes = <<>>
          THEN /\ pc' = "done"
               /\ refresh_result' = "no_codes"
               /\ UNCHANGED <<future_to_code, pending, all_details>>
          ELSE /\ pc' = "ref_fetch"
               /\ Submit(all_codes)
               /\ UNCHANGED refresh_result
    /\ UNCHANGED <<full_refresh, run, header, sheet, existing_codes, new_codes, all_data,
                   rows_to_update, cell_updates, remote, hist>>

\* lines 51-72, and main()'s except clause: df['listing_date'] and df['sub_date']
\* raise KeyError when no record has the key
refresh_write ==
    /\ pc = "ref_fetch"
    /\ pending = {}
    /\ pc' = "done"
    /\ IF all_details = <<>>
       THEN /\ refresh_result' = "no_details"
            /\ UNCHANGED <<header, sheet>>
       ELSE IF ~({"listing_date", "sub_date"} \subseteq Columns(all_details))
       THEN /\ refresh_result' = "KeyError"
            /\ UNCHANGED <<header, sheet>>
       ELSE LET order == FinalOrder(all_details)
            IN /\ refresh_result' = "written"
               /\ header' = FINAL_HEADER
               /\ sheet' = [k \in 1..Len(order) |-> RefreshRow(all_details[order[k]])]
    /\ UNCHANGED <<full_refresh, run, upcoming_codes, existing_codes, new_codes, all_data,
                   rows_to_update, future_to_code, pending, all_details, cell_updates,
                   remote, hist>>

-----------------------------------------------------------------------------
(* Initial states *)

\* rows the program writes for c: a placeholder, or an accepted detail
InitRows(c) ==
    {PlaceholderRow(c)} \cup {RefreshRow(d) : d \in {e \in get_ipo_details(c) : Accepted(e)}}

RowCode(row) == row[IndexOf(FINAL_HEADER, "code")]

RECURSIVE InitSheets(_, _)
InitSheets(S, n) ==
    IF n = 0 THEN {<<>>}
    ELSE {<<>>} \cup
         UNION {{<<r>> \o t : r \in InitRows(c), t \in InitSheets(S \ {c}, n - 1)} : c \in S}

InitLocals ==
    /\ upcoming_codes = <<>>
    /\ existing_codes = {}
    /\ new_codes = <<>>
    /\ all_data = <<>>
    /\ rows_to_update = <<>>
    /\ future_to_code = <<>>
    /\ pending = {}
    /\ all_details = <<>>
    /\ cell_updates = <<>>
    /\ remote = [c \in Codes |-> UNFETCHED]
    /\ refresh_result = UNSET

Init ==
    /\ full_refresh = FALSE
    /\ pc = "main"
    /\ run = 1
    /\ header = FINAL_HEADER
    /\ sheet \in InitSheets(UpcomingCodes, MaxInitRows)
    /\ InitLocals
    /\ hist = NewHist(sheet, <<>>, TRUE, <<>>)

Next ==
    \/ \E F \in get_upcoming_ipo_stock_codes, ok \in BOOLEAN : add_new_ipo_rows(F, ok)
    \/ \E ok \in BOOLEAN : update_select(ok)
    \/ \E i \in pending, d \in UNION {get_ipo_details(c) : c \in Codes} : FutureCompleted(i, d)
    \/ update_write
    \/ rerun

Spec == Init /\ [][Next]_vars

InitRefresh ==
    /\ full_refresh = TRUE
    /\ pc = "main"
    /\ run = 1
    /\ header = FINAL_HEADER
    /\ sheet \in InitSheets(UpcomingCodes, MaxInitRows)
    /\ InitLocals
    /\ hist = NewHist(sheet, <<>>, TRUE, <<>>)

NextRefresh ==
    \/ \E r \in get_recent_ipo_stock_codes, u \in get_upcoming_ipo_stock_codes :
            refresh_start(r, u)
    \/ \E i \in pending, d \in UNION {get_ipo_details(c) : c \in Codes} : FutureCompleted(i, d)
    \/ refresh_write

SpecRefresh == InitRefresh /\ [][NextRefresh]_vars

\* line 90 applied to any set of existing identifiers and any enumerated list
InitDiff ==
    /\ full_refresh = FALSE
    /\ pc = "diff"
    /\ run = 1
    /\ header = FINAL_HEADER
    /\ sheet = <<>>
    /\ upcoming_codes \in SeqsNoDup(Codes, MaxDiffLen)
    /\ existing_codes \in SUBSET Codes
    /\ new_codes = <<>>
    /\ all_data = <<>>
    /\ rows_to_update = <<>>
    /\ future_to_code = <<>>
    /\ pending = {}
    /\ all_details = <<>>
    /\ cell_updates = <<>>
    /\ remote = [c \in Codes |-> UNFETCHED]
    /\ refresh_result = UNSET
    /\ hist = NewHist(sheet, <<>>, TRUE, <<>>)

diff_new_codes ==
    /\ pc = "diff"
    /\ new_codes' = NewCodes(upcoming_codes, existing_codes)
    /\ pc' = "diffed"
    /\ UNCHANGED <<full_refresh, run, header, sheet, upcoming_codes, existing_codes,
                   all_data, rows_to_update, future_to_code, pending, all_details,
                   cell_updates, remote, refresh_result, hist>>

NextDiff == diff_new_codes

SpecDiff == InitDiff /\ [][NextDiff]_vars

-----------------------------------------------------------------------------
(* Properties *)

\* absent, empty, or the unknown sentinel
Unknown(v) == v \in {None, "", NA}

ScheduleFields == {"sub_date", "listing_date", "ratio"}

\* update_write has run in this run
Written == pc = "done" /\ hist.before_write # <<>>

CellsAt(r) == {cell \in Range(cell_updates) : cell.row = r}

\* the fields of a detail that are in the header and hold a known value
PatchFields(d) == {f \in (DOMAIN d) \cap Range(header) : ~Unknown(d[f])}

\* C1: no identifier occurs in more than one data row, whatever the enumerator
\* returns and whether or not the sheet can be read
C1_IdentifierUnique ==
    \A i, j \in 1..Len(sheet) : i # j => RowCode(sheet[i]) # RowCode(sheet[j])

\* C2: the cells built for a row are exactly the header fields of its fetched
\* detail that hold a known value; no cell carries an empty or unknown value or
\* lies outside the header, and no known sheet value becomes unknown
C2_PatchOnlyKnownFields ==
    Written =>
        /\ \A k \in 1..Len(rows_to_update) :
              LET r == rows_to_update[k][1]
                  d == remote[rows_to_update[k][2]]
              IN Accepted(d) =>
                    {<<header[cell.col], cell.value>> : cell \in CellsAt(r)}
                        = {<<f, d[f]>> : f \in PatchFields(d)}
        /\ \A cell \in Range(cell_updates) :
              /\ cell.col \in 1..Len(header)
              /\ header[cell.col] \in Range(FINAL_HEADER)
              /\ ~Unknown(cell.value)
        /\ Len(sheet) = Len(hist.before_write)
        /\ \A i \in 1..Len(sheet) : \A j \in 1..Len(header) :
              ~Unknown(hist.before_write[i][j]) => ~Unknown(sheet[i][j])

\* a row with an unknown listing date got a listing date and no ratio cell from
\* a detail whose ratio is empty
C2_Witness ==
    /\ Written
    /\ \E k \in 1..Len(rows_to_update) :
          LET r == rows_to_update[k][1]
              d == remote[rows_to_update[k][2]]
          IN /\ Accepted(d)
             /\ Get(d, "ratio") = ""
             /\ ~Unknown(Get(d, "listing_date"))
             /\ all_data[r - 1]["listing_date"] = NA
             /\ \E cell \in CellsAt(r) : header[cell.col] = "listing_date"
             /\ ~\E cell \in CellsAt(r) : header[cell.col] = "ratio"

\* C3: the new identifiers are the enumerated ones not in the existing set, in
\* the enumerator's order
C3_NewCodesAreOrderedDifference ==
    pc = "diffed" =>
        /\ \A i \in 1..Len(new_codes) :
              new_codes[i] \in Range(upcoming_codes) /\ new_codes[i] \notin existing_codes
        /\ \A c \in Range(upcoming_codes) : c \notin existing_codes => c \in Range(new_codes)
        /\ \A i, j \in 1..Len(new_codes) :
              i < j => IndexOf(upcoming_codes, new_codes[i]) < IndexOf(upcoming_codes, new_codes[j])

C3_Witness ==
    /\ pc = "diffed"
    /\ existing_codes = {"A123", "B456"}
    /\ upcoming_codes = <<"B456", "C789", "A123">>
    /\ new_codes = <<"C789">>

\* the selection of update_incomplete_ipo_details under a completeness test
SelectionIs(Incomplete(_)) ==
    pc \in {"upd_fetch", "done"} =>
        /\ \A k \in 1..Len(rows_to_update) :
              /\ rows_to_update[k][1] - 1 \in 1..Len(all_data)
              /\ rows_to_update[k][2] = all_data[rows_to_update[k][1] - 1]["code"]
        /\ {rows_to_update[k][1] : k \in 1..Len(rows_to_update)}
              = {i + 1 : i \in {n \in 1..Len(all_data) : Incomplete(all_data[n])}}
        /\ \A k, l \in 1..Len(rows_to_update) :
              k < l => rows_to_update[k][1] < rows_to_update[l][1]

IncompleteAsClaimed(rec) == \E f \in ScheduleFields : Unknown(Get(rec, f))

IncompleteOrTBD(rec) == IncompleteAsClaimed(rec) \/ Get(rec, "listing_date") = TBD

\* C4 as claimed: the selected rows are exactly those with an absent, empty or
\* 'N/A' subscription date, listing date or ratio
C4_SelectsUnknownOnly == SelectionIs(IncompleteAsClaimed)

\* C4 amended: ... or with the listing date 'mijeong' (TBD); reported as
\* (index + 2, identifier) in row order, rows sharing an identifier included
C4_SelectsUnknownOrTBD == SelectionIs(IncompleteOrTBD)

\* a row whose only gap is the open listing date is selected, and so are two
\* rows with one identifier
C4_Witness ==
    /\ pc = "upd_fetch"
    /\ \E k \in 1..Len(rows_to_update) :
          LET rec == all_data[rows_to_update[k][1] - 1]
          IN rec["listing_date"] = TBD /\ ~IncompleteAsClaimed(rec)
    /\ \E k, l \in 1..Len(rows_to_update) :
          k # l /\ rows_to_update[k][2] = rows_to_update[l][2]

ColOf(f) == IndexOf(FINAL_HEADER, f)

RowListingDt(row) == to_datetime(row[ColOf("listing_date")])
RowSubDt(row) == to_datetime(SplitFirst(row[ColOf("sub_date")]))

\* rows without a parseable listing date first, by subscription start newest
\* first; then the listed rows by listing date newest first; unparseable sort
\* dates at the end of their group
FullRefreshOrder ==
    \A i, j \in 1..Len(sheet) :
        i < j =>
            LET a == sheet[i]
                b == sheet[j]
            IN /\ RowListingDt(a) # NaT => RowListingDt(b) # NaT
               /\ (RowListingDt(a) = NaT /\ RowListingDt(b) = NaT) =>
                     /\ RowSubDt(a) = NaT => RowSubDt(b) = NaT
                     /\ RowSubDt(a) >= RowSubDt(b)
               /\ (RowListingDt(a) # NaT /\ RowListingDt(b) # NaT) =>
                     RowListingDt(a) >= RowListingDt(b)

\* C5: a full refresh that fetched at least one record writes the records in
\* the full-refresh order, and no field value makes the sort fail
C5_FullRefreshSortsAndNeverFails ==
    (pc = "done" /\ all_details # <<>>) =>
        /\ refresh_result = "written"
        /\ Len(sheet) = Len(all_details)
        /\ FullRefreshOrder

\* the order part of C5 alone, for the refreshes that do get written
C5_OrderWhenWritten ==
    (pc = "done" /\ refresh_result = "written") =>
        Len(sheet) = Len(all_details) /\ FullRefreshOrder

\* C6: a second run with the same upcoming list and the same pages, every sheet
\* read succeeding, inserts no row and leaves every cell as the first run left it
C6_RerunChangesNothing ==
    (run > 1 /\ pc = "done" /\ hist.prev_reads_ok /\ hist.reads_ok) =>
        /\ new_codes = <<>>
        /\ sheet = hist.prev_sheet
        /\ update_cells(hist.prev_sheet, cell_updates) = hist.prev_sheet

\* the rerun found incomplete rows, fetched them again and wrote cells
C6_Witness ==
    /\ run > 1
    /\ Written
    /\ hist.prev_reads_ok /\ hist.reads_ok
    /\ hist.prev_upcoming # <<>>
    /\ cell_updates # <<>>
    /\ Len(sheet) >= 2

\* the fetch returned the identifier field alone
FetchFailed(c) == remote[c] = ("code" :> c)

RowUntouched(r) ==
    /\ CellsAt(r) = {}
    /\ sheet[r - 1] = hist.before_write[r - 1]

RowPatchedWith(r, d) ==
    /\ {<<header[cell.col], cell.value>> : cell \in CellsAt(r)} = {<<f, d[f]>> : f \in PatchFields(d)}
    /\ PatchFields(d) # {}
    /\ \A j \in 1..Len(header) :
          sheet[r - 1][j] = IF header[j] \in PatchFields(d) THEN d[header[j]]
                            ELSE hist.before_write[r - 1][j]

\* when a fetch of this run failed: its rows are untouched and every other
\* selected row called successful is patched; and the rows a failed fetch left
\* unpatched are selected again by the next runs called NextSelection
FailureIsolated(Succeeded(_), NextSelection) ==
    /\ Written =>
          \A k \in 1..Len(rows_to_update) :
              FetchFailed(rows_to_update[k][2]) =>
                  /\ RowUntouched(rows_to_update[k][1])
                  /\ \A l \in 1..Len(rows_to_update) :
                        Succeeded(rows_to_update[l][2]) =>
                            RowPatchedWith(rows_to_update[l][1], remote[rows_to_update[l][2]])
    /\ (run > 1 /\ pc \in {"upd_fetch", "done"} /\ NextSelection) =>
          \A k \in 1..Len(hist.prev_rows) :
              LET r == hist.prev_rows[k][1]
                  c == hist.prev_rows[k][2]
              IN FetchFailed(c) =>
                    \E l \in 1..Len(rows_to_update) :
                        rows_to_update[l] = <<r + Len(new_codes), c>>

NotFailed(c) == ~FetchFailed(c)

HasName(c) == Accepted(remote[c])

C8_PlaceholdersOnTop ==
    pc = "update" =>
        LET k == Len(new_codes)
            before == hist.before_add
        IN /\ header = FINAL_HEADER
           /\ Len(sheet) = k + Len(before)
           /\ \A i \in 1..k :
                 /\ Len(sheet[i]) = Len(FINAL_HEADER)
                 /\ \A j \in 1..Len(FINAL_HEADER) :
                       sheet[i][j] = IF FINAL_HEADER[j] = "code" THEN new_codes[i] ELSE NA
           /\ \A i \in 1..Len(before) : sheet[k + i] = before[i]

C8_Witness ==
    /\ pc = "update"
    /\ hist.add_read_ok
    /\ Len(new_codes) >= 1
    /\ Len(hist.before_add) >= 1
    /\ sheet[Len(new_codes) + 1] # PlaceholderRow(RowCode(sheet[Len(new_codes) + 1]))

\* the accepted page of each identifier, whatever the order of completion
AcceptedPages == [c \in {x \in Codes : Accepted(remote[x])} |-> remote[c]]

C10_PatchLandsOnItsRow ==
    Written =>
        \A n \in 1..Len(cell_updates) :
            LET cell == cell_updates[n]
            IN /\ cell.row - 1 \in 1..Len(hist.before_write)
               /\ cell.col \in 1..Len(header)
               /\ LET c == RowCode(hist.before_write[cell.row - 1])
                  IN /\ Accepted(remote[c])
                     /\ header[cell.col] \in DOMAIN remote[c]
                     /\ cell.value = remote[c][header[cell.col]]
               /\ IncompleteOrTBD(all_data[cell.row - 1])

\* rows were inserted in this run and a row below them was patched
C10_Witness ==
    /\ Written
    /\ hist.add_read_ok
    /\ new_codes # <<>>
    /\ \E n \in 1..Len(cell_updates) : cell_updates[n].row > Len(new_codes) + 1
    /\ \E n \in 1..Len(cell_updates) : cell_updates[n].row <= Len(new_codes) + 1

====
